---- MODULE Spec2Model ----
(***************************************************************************)
(* Model of backend/services/virual_machine_service.go: OpenStackService.  *)
(* One invocation at a time runs through its HTTP round trips; the remote  *)
(* side answers each request with any response of a small set.             *)
(***************************************************************************)
EXTENDS Integers, Sequences, FiniteSets, TLC

\* ------------------------------------------------------------------ bounds
\* Longest servers[] array a list response carries.
MaxServers == 2

\* ------------------------------------------------------- program constants
StatusCreated == 201
StatusOK == 200
\* The statuses the remote side answers a token POST and a GET with.
AuthStatuses == {StatusCreated, StatusOK, 401}
GetStatuses == {StatusOK, 404}

\* --------------------------------------------------------------- JSON text
\* A JSON object is a function from its keys to its values.
Obj(k, v) == k :> v

\* encoding/json: an absent key leaves the Go field at its zero value.
Field(doc, key, zero) == IF key \in DOMAIN doc THEN doc[key] ELSE zero

NoDoc == [x \in {} |-> x]

\* A response body: bytes that are a JSON document of the shapes the
\* decoder accepts (valid), or bytes json.Unmarshal rejects.
Garbage == [valid |-> FALSE, doc |-> NoDoc]
Json(d) == [valid |-> TRUE, doc |-> d]

\* Go errors: nil is the empty sequence, fmt.Errorf("msg: %v", err)
\* puts the message in front of the cause.
NilErr == <<>>
Errorf(msg) == <<msg>>
Wrap(msg, err) == <<msg>> \o err

\* ------------------------------------------------------------ input values
\* models.Participant: endpoint and application credential.
Endpoints == {"http://openstack", "http://open stack"}
CredIDs == {"", "app-id"}
CredSecrets == {"", "s3cret"}
Participants ==
    [OpenStackEndpoint : Endpoints,
     OpenStackApplicationCredentialID : CredIDs,
     OpenStackApplicationCredentialSecret : CredSecrets]

\* vm.InstanceID / instanceID arguments.
InstanceIDs == {"", "vm-1", "%zz"}
\* Tokens: values of X-Subject-Token, and of the token argument of the
\* methods that take one.
Tokens == {"tokA", "tokB"}

\* Strings net/url cannot parse inside a URL: a space in the host name and
\* an invalid percent escape.
UnparsableParts == {"http://open stack", "%zz"}

\* http.NewRequest(method, url, body): fails when url.Parse rejects the URL.
NewRequestOK(url) == \A i \in 1..Len(url) : url[i] \notin UnparsableParts

Request(method, url, token) == [method |-> method, url |-> url, token |-> token]

\* ------------------------------------------------------------ HTTP answers
\* What s.client.Do returns for the token POST.
AuthResponses ==
    {[transportOK |-> FALSE, status |-> 0, subjectToken |-> ""]}
    \cup [transportOK : {TRUE},
          status : AuthStatuses,
          subjectToken : Tokens \cup {""}]

\* ------------------------------------------------------------ GetAuthToken
\* Mutant: one of the two credential fields is enough.
HasCredential_EitherField(participant) ==
    participant.OpenStackApplicationCredentialID # ""
    \/ participant.OpenStackApplicationCredentialSecret # ""

\* The condition under which GetAuthToken builds an auth request.
HasCredential(participant) ==
    participant.OpenStackApplicationCredentialID # ""
    /\ participant.OpenStackApplicationCredentialSecret # ""

\* Mutant: any 2xx status counts as success.
IsCreated_AnySuccess(status) == status >= 200 /\ status < 300

\* The status GetAuthToken takes for success.
IsCreated(status) == status = StatusCreated

\* The requests GetAuthToken sends.
AuthRequests(participant) ==
    LET url == <<participant.OpenStackEndpoint, "/identity/v3/auth/tokens">>
    IN  IF HasCredential(participant) /\ NewRequestOK(url)
        THEN <<Request("POST", url, "")>>
        ELSE <<>>

\* GetAuthToken(participant) when the remote side answers resp.
GetAuthToken(participant, resp) ==
    LET url == <<participant.OpenStackEndpoint, "/identity/v3/auth/tokens">>
    IN  IF ~HasCredential(participant)
        THEN [token |-> "", err |-> Errorf("application credential required")]
        ELSE IF ~NewRequestOK(url)
        THEN [token |-> "", err |-> Wrap("creating HTTP request failed", Errorf("parse url"))]
        ELSE IF ~resp.transportOK
        THEN [token |-> "", err |-> Wrap("auth request failed", Errorf("transport"))]
        ELSE IF ~IsCreated(resp.status)
        THEN [token |-> "", err |-> Errorf("auth failed: HTTP status")]
        ELSE IF resp.subjectToken = ""
        THEN [token |-> "", err |-> Errorf("no auth token received")]
        ELSE [token |-> resp.subjectToken, err |-> NilErr]

\* ------------------------------------------------- fixtures of the remote side
\* Flavor objects the flavor-detail endpoint serves.
flvA == [id |-> "f1", name |-> "m1.small", vcpus |-> 1, ram |-> 2048, disk |-> 20]
flvB == [id |-> "f2", name |-> "m1.large", vcpus |-> 4, ram |-> 8192, disk |-> 80]
FlavorDocs == {flvA, flvB}

\* Server objects of the compute endpoints.
srvA ==
    [id |-> "vm-1", name |-> "alpha", status |-> "ACTIVE",
     flavor |-> [id |-> "f1"],
     addresses |-> [private |-> <<("addr" :> "10.0.0.5" @@ "OS-EXT-IPS:type" :> "fixed")>>],
     created |-> "2024-01-01T00:00:00Z", updated |-> "2024-01-02T00:00:00Z"]
    @@ "OS-EXT-STS:power_state" :> 1
    @@ "OS-EXT-AZ:availability_zone" :> "nova"
srvB ==
    [id |-> "vm-2", name |-> "beta", status |-> "STOPPED",
     flavor |-> [id |-> "f2"],
     created |-> "2024-02-01T00:00:00Z", updated |-> "2024-02-02T00:00:00Z"]
    @@ "OS-EXT-STS:power_state" :> 4
    @@ "OS-EXT-AZ:availability_zone" :> ""
srvC ==
    [id |-> "vm-3", status |-> "ERROR", flavor |-> [id |-> "%zz"]]
ServerDocs == {srvA, srvB, srvC}

\* The body of an error page: valid JSON without the key the caller reads.
ErrorDoc == [itemNotFound |-> [message |-> "not found"]]

RECURSIVE SeqsUpTo(_, _)
SeqsUpTo(S, n) ==
    IF n = 0 THEN {<<>>}
    ELSE LET shorter == SeqsUpTo(S, n - 1)
         IN  shorter \cup {Append(q, x) : q \in {r \in shorter : Len(r) = n - 1}, x \in S}

ListBodies ==
    {Json(Obj("servers", q)) : q \in SeqsUpTo(ServerDocs, MaxServers)}
    \cup {Json(ErrorDoc), Garbage}
InstanceBodies == {Json(Obj("server", d)) : d \in ServerDocs} \cup {Json(ErrorDoc), Garbage}
FlavorBodies == {Json(Obj("flavor", d)) : d \in FlavorDocs} \cup {Json(ErrorDoc), Garbage}

\* What s.client.Do and io.ReadAll return for a GET: body holds the bytes
\* io.ReadAll handed back, whether or not it also reported an error.
TransportError == [transportOK |-> FALSE, status |-> 0, readOK |-> FALSE, body |-> Garbage]
GetResponses(bodies) ==
    {TransportError}
    \cup [transportOK : {TRUE}, status : GetStatuses,
          readOK : BOOLEAN, body : bodies]

\* ------------------------------------------------------------ Go structures
\* FlavorDetails decoded from a flavor object.
ParseFlavor(doc) ==
    [ID |-> Field(doc, "id", ""), Name |-> Field(doc, "name", ""),
     VCPUs |-> Field(doc, "vcpus", 0), RAM |-> Field(doc, "ram", 0),
     Disk |-> Field(doc, "disk", 0)]

\* map[string][]struct{Addr, Type} decoded from an addresses object; the
\* empty function is the nil map.
ParseAddresses(doc) ==
    [n \in DOMAIN doc |->
        [i \in DOMAIN doc[n] |->
            [Addr |-> Field(doc[n][i], "addr", ""),
             Type |-> Field(doc[n][i], "OS-EXT-IPS:type", "")]]]

\* The anonymous server struct of basicResponse.
ParseBasicServer(doc) ==
    [ID |-> Field(doc, "id", ""), Name |-> Field(doc, "name", ""),
     Status |-> Field(doc, "status", ""),
     Flavor |-> [ID |-> Field(Field(doc, "flavor", NoDoc), "id", "")],
     Addresses |-> ParseAddresses(Field(doc, "addresses", NoDoc)),
     PowerState |-> Field(doc, "OS-EXT-STS:power_state", 0),
     AvailabilityZone |-> Field(doc, "OS-EXT-AZ:availability_zone", ""),
     Created |-> Field(doc, "created", ""), Updated |-> Field(doc, "updated", "")]

\* VMInstance decoded directly (VMListResponse.Servers).
ParseVMInstance(doc) ==
    [ID |-> Field(doc, "id", ""), Name |-> Field(doc, "name", ""),
     Status |-> Field(doc, "status", ""),
     Flavor |-> ParseFlavor(Field(doc, "flavor", NoDoc)),
     Addresses |-> ParseAddresses(Field(doc, "addresses", NoDoc)),
     PowerState |-> Field(doc, "OS-EXT-STS:power_state", 0),
     AvailabilityZone |-> Field(doc, "OS-EXT-AZ:availability_zone", ""),
     Created |-> Field(doc, "created", ""), Updated |-> Field(doc, "updated", "")]

\* -------------------------------------------------------- GetFlavorDetails
FlavorURL(participant, flavorID) ==
    <<participant.OpenStackEndpoint, "/compute/v2.1/flavors/", flavorID>>

\* Mutant: the request is sent a second time.
FlavorRequests_Retry(participant, token, flavorID) ==
    IF NewRequestOK(FlavorURL(participant, flavorID))
    THEN <<Request("GET", FlavorURL(participant, flavorID), token),
           Request("GET", FlavorURL(participant, flavorID), token)>>
    ELSE <<>>

\* The requests GetFlavorDetails sends.
FlavorRequests(participant, token, flavorID) ==
    IF NewRequestOK(FlavorURL(participant, flavorID))
    THEN <<Request("GET", FlavorURL(participant, flavorID), token)>>
    ELSE <<>>

\* GetFlavorDetails(participant, token, flavorID) when the remote side
\* answers resp: nonNil tells whether the returned pointer is set.
GetFlavorDetails(participant, token, flavorID, resp) ==
    LET none == ParseFlavor(NoDoc)
    IN  IF ~NewRequestOK(FlavorURL(participant, flavorID))
        THEN [nonNil |-> FALSE, val |-> none,
              err |-> Wrap("creating HTTP request failed", Errorf("parse url"))]
        ELSE IF ~resp.transportOK
        THEN [nonNil |-> FALSE, val |-> none,
              err |-> Wrap("flavor lookup failed", Errorf("transport"))]
        ELSE IF resp.status # StatusOK
        THEN [nonNil |-> FALSE, val |-> none, err |-> Errorf("flavor lookup failed: HTTP status")]
        ELSE IF ~resp.readOK
        THEN [nonNil |-> FALSE, val |-> none,
              err |-> Wrap("reading response failed", Errorf("read"))]
        ELSE IF ~resp.body.valid
        THEN [nonNil |-> FALSE, val |-> none,
              err |-> Wrap("parsing response failed", Errorf("json"))]
        ELSE [nonNil |-> TRUE, val |-> ParseFlavor(Field(resp.body.doc, "flavor", NoDoc)),
              err |-> NilErr]

\* Mutant: the default is left at its zero value.
UnknownFlavor_Zero(flavorID) ==
    [ID |-> "", Name |-> "", VCPUs |-> 0, RAM |-> 0, Disk |-> 0]

\* The default substituted when the flavor could not be fetched.
UnknownFlavor(flavorID) ==
    [ID |-> flavorID, Name |-> "Unknown", VCPUs |-> 0, RAM |-> 0, Disk |-> 0]

\* ------------------------------------------- GetAllVMInstances, first part
ListURL(participant) == <<participant.OpenStackEndpoint, "/compute/v2.1/servers/detail">>

\* The list request of GetAllVMInstances.
ListRequests(participant, token) ==
    IF NewRequestOK(ListURL(participant))
    THEN <<Request("GET", ListURL(participant), token)>>
    ELSE <<>>

\* The list GET of GetAllVMInstances up to the parsed basicResponse: the
\* body is read before the status is looked at.
FetchServerList(participant, token, resp) ==
    IF ~NewRequestOK(ListURL(participant))
    THEN [servers |-> <<>>, err |-> Wrap("creating HTTP request failed", Errorf("parse url"))]
    ELSE IF ~resp.transportOK
    THEN [servers |-> <<>>, err |-> Wrap("VM list failed", Errorf("transport"))]
    ELSE IF ~resp.readOK
    THEN [servers |-> <<>>, err |-> Wrap("reading response failed", Errorf("read"))]
    ELSE IF resp.status # StatusOK
    THEN [servers |-> <<>>, err |-> Errorf("VM list failed: HTTP status, body")]
    ELSE IF ~resp.body.valid
    THEN [servers |-> <<>>, err |-> Wrap("parsing response failed", Errorf("json"))]
    ELSE LET docs == Field(resp.body.doc, "servers", <<>>)
         IN  [servers |-> [i \in DOMAIN docs |-> ParseBasicServer(docs[i])],
              err |-> NilErr]

\* The loop body of GetAllVMInstances: the VMInstance built for one server
\* from the outcome fl of its flavor lookup.
EnrichListed(server, fl) ==
    LET flavorDetails == IF fl.err # NilErr THEN UnknownFlavor(server.Flavor.ID) ELSE fl.val
    IN  [ID |-> server.ID, Name |-> server.Name, Status |-> server.Status,
         Flavor |-> flavorDetails, Addresses |-> server.Addresses,
         PowerState |-> server.PowerState, AvailabilityZone |-> "",
         Created |-> server.Created, Updated |-> server.Updated]

\* ------------------------------------------------------------ GetVMInstance
InstanceURL(participant, instanceID) ==
    <<participant.OpenStackEndpoint, "/compute/v2.1/servers/", instanceID>>

\* Mutant: the request carries a token kept from before.
InstanceRequests_StaleToken(instanceID, participant, token) ==
    IF instanceID # "" /\ NewRequestOK(InstanceURL(participant, instanceID))
    THEN <<Request("GET", InstanceURL(participant, instanceID), "tokA")>>
    ELSE <<>>

\* The instance request of GetVMInstance.
InstanceRequests(instanceID, participant, token) ==
    IF instanceID # "" /\ NewRequestOK(InstanceURL(participant, instanceID))
    THEN <<Request("GET", InstanceURL(participant, instanceID), token)>>
    ELSE <<>>

\* GetVMInstance up to the parsed basicResponse.
FetchServer(instanceID, participant, token, resp) ==
    LET none == ParseBasicServer(NoDoc)
    IN  IF instanceID = ""
        THEN [server |-> none, err |-> Errorf("VM instance ID is not set")]
        ELSE IF ~NewRequestOK(InstanceURL(participant, instanceID))
        THEN [server |-> none, err |-> Wrap("creating HTTP request failed", Errorf("parse url"))]
        ELSE IF ~resp.transportOK
        THEN [server |-> none, err |-> Wrap("VM lookup failed", Errorf("transport"))]
        ELSE IF resp.status # StatusOK
        THEN [server |-> none, err |-> Errorf("VM lookup failed: HTTP status")]
        ELSE IF ~resp.readOK
        THEN [server |-> none, err |-> Wrap("reading response failed", Errorf("read"))]
        ELSE IF ~resp.body.valid
        THEN [server |-> none, err |-> Wrap("parsing response failed", Errorf("json"))]
        ELSE [server |-> ParseBasicServer(Field(resp.body.doc, "server", NoDoc)),
              err |-> NilErr]

\* The VMInstance GetVMInstance builds from the outcome fl of the flavor
\* lookup.
EnrichFetched(server, fl) ==
    LET flavorDetails == IF fl.err # NilErr THEN UnknownFlavor(server.Flavor.ID) ELSE fl.val
    IN  [ID |-> server.ID, Name |-> server.Name, Status |-> server.Status,
         Flavor |-> flavorDetails, Addresses |-> server.Addresses,
         PowerState |-> server.PowerState, AvailabilityZone |-> "",
         Created |-> server.Created, Updated |-> server.Updated]

\* ---------------------------------------------------------- ListVMInstances
ListOnlyURL(participant) == <<participant.OpenStackEndpoint, "/v2.1/servers/detail">>

ListOnlyRequests(participant, token) ==
    IF NewRequestOK(ListOnlyURL(participant))
    THEN <<Request("GET", ListOnlyURL(participant), token)>>
    ELSE <<>>

\* ListVMInstances(participant, token) when the remote side answers resp.
ListVMInstances(participant, token, resp) ==
    IF ~NewRequestOK(ListOnlyURL(participant))
    THEN [nonNil |-> FALSE, val |-> <<>>,
          err |-> Wrap("creating HTTP request failed", Errorf("parse url"))]
    ELSE IF ~resp.transportOK
    THEN [nonNil |-> FALSE, val |-> <<>>, err |-> Wrap("VM list failed", Errorf("transport"))]
    ELSE IF resp.status # StatusOK
    THEN [nonNil |-> FALSE, val |-> <<>>, err |-> Errorf("VM list failed: HTTP status")]
    ELSE IF ~resp.readOK
    THEN [nonNil |-> FALSE, val |-> <<>>, err |-> Wrap("reading response failed", Errorf("read"))]
    ELSE IF ~resp.body.valid
    THEN [nonNil |-> FALSE, val |-> <<>>, err |-> Wrap("parsing response failed", Errorf("json"))]
    ELSE LET docs == Field(resp.body.doc, "servers", <<>>)
         IN  [nonNil |-> "servers" \in DOMAIN resp.body.doc,
              val |-> [i \in DOMAIN docs |-> ParseVMInstance(docs[i])],
              err |-> NilErr]

\* -------------------------------------------------------- GetVMRuntimeStatus
\* The instance request of GetVMRuntimeStatus.
StatusRequests(participant, token, instanceID) ==
    IF NewRequestOK(InstanceURL(participant, instanceID))
    THEN <<Request("GET", InstanceURL(participant, instanceID), token)>>
    ELSE <<>>

NoRuntimeInfo == [InstanceID |-> "", Status |-> "", PowerState |-> 0]

\* GetVMRuntimeStatus after its token was obtained: the status code is not
\* looked at and the error of io.ReadAll is dropped.
RuntimeStatus(participant, token, instanceID, resp) ==
    IF ~NewRequestOK(InstanceURL(participant, instanceID))
    THEN [nonNil |-> FALSE, val |-> NoRuntimeInfo,
          err |-> Wrap("creating HTTP request failed", Errorf("parse url"))]
    ELSE IF ~resp.transportOK
    THEN [nonNil |-> FALSE, val |-> NoRuntimeInfo,
          err |-> Wrap("VM status lookup failed", Errorf("transport"))]
    ELSE IF ~resp.body.valid
    THEN [nonNil |-> FALSE, val |-> NoRuntimeInfo,
          err |-> Wrap("parsing response failed", Errorf("json"))]
    ELSE LET server == Field(resp.body.doc, "server", NoDoc)
         IN  [nonNil |-> TRUE,
              val |-> [InstanceID |-> instanceID,
                       Status |-> Field(server, "status", ""),
                       PowerState |-> Field(server, "OS-EXT-STS:power_state", 0)],
              err |-> NilErr]

\* ------------------------------------------------------ HealthCheckSpecificVM
\* VMHealthCheckResult; the message is the format's text and its argument.
\* CheckedAt and ResponseTime, readings of the clock, are left out.
HealthAuthFailed(err) ==
    [Healthy |-> FALSE, Status |-> "ERROR", Message |-> Wrap("auth failed: ", err)]
HealthFetchFailed(err) ==
    [Healthy |-> FALSE, Status |-> "ERROR", Message |-> Wrap("VM lookup failed: ", err)]
\* Mutant: every status but "ERROR" counts as healthy.
HealthOf_NotError(instance) ==
    LET healthy == instance.Status # "ERROR"
    IN  [Healthy |-> healthy, Status |-> instance.Status,
         Message |-> IF ~healthy
                     THEN <<"VM state is abnormal: ", instance.Status>>
                     ELSE <<"VM is running normally">>]

\* The result of HealthCheckSpecificVM for a fetched instance.
HealthOf(instance) ==
    LET healthy == instance.Status = "ACTIVE"
    IN  [Healthy |-> healthy, Status |-> instance.Status,
         Message |-> IF ~healthy
                     THEN <<"VM state is abnormal: ", instance.Status>>
                     ELSE <<"VM is running normally">>]

\* --------------------------------------- AssignFederatedLearningTaskSpecific
AssignOutcome(instance) ==
    IF instance.Status # "ACTIVE"
    THEN <<"VM is not active: ", instance.Status>>
    ELSE NilErr

\* ------------------------------------------------------ SyncVMsFromOpenStack
\* json.Marshal of the address map, under the struct's JSON keys.
MarshalAddresses(addrs) ==
    [n \in DOMAIN addrs |->
        [i \in DOMAIN addrs[n] |->
            ("addr" :> addrs[n][i].Addr @@ "OS-EXT-IPS:type" :> addrs[n][i].Type)]]

\* models.VirtualMachine built for one VMInstance (ParticipantID, the
\* caller's own key, left out).
SyncRecord(osVM) ==
    [InstanceID |-> osVM.ID, Name |-> osVM.Name, Status |-> osVM.Status,
     FlavorID |-> osVM.Flavor.ID, FlavorName |-> osVM.Flavor.Name,
     VCPUs |-> osVM.Flavor.VCPUs, RAM |-> osVM.Flavor.RAM, Disk |-> osVM.Flavor.Disk,
     IPAddresses |-> MarshalAddresses(osVM.Addresses),
     AvailabilityZone |-> osVM.AvailabilityZone]

\* SyncVMsFromOpenStack once GetAllVMInstances returned r.
SyncVMsFromOpenStack(r) ==
    IF r.err # NilErr
    THEN [err |-> Wrap("OpenStack VM list failed", r.err), nonNil |-> FALSE, val |-> <<>>]
    ELSE [err |-> NilErr, nonNil |-> r.val # <<>>,
          val |-> [i \in DOMAIN r.val |-> SyncRecord(r.val[i])]]

\* GetAllVMInstances returns r: to its caller, or to SyncVMsFromOpenStack.
ReturnList(o, r) == IF o = "SyncVMsFromOpenStack" THEN SyncVMsFromOpenStack(r) ELSE r

\* Mutant: the fetch error is handed to the caller.
HealthCheckSpecificVM_Propagates(r) ==
    IF r.err # NilErr
    THEN [err |-> Wrap("VM lookup failed: ", r.err), nonNil |-> FALSE, val |-> <<>>]
    ELSE [err |-> NilErr, nonNil |-> TRUE, val |-> HealthOf(r.val)]

\* HealthCheckSpecificVM once GetVMInstance returned r.
HealthCheckSpecificVM(r) ==
    IF r.err # NilErr
    THEN [err |-> NilErr, nonNil |-> TRUE, val |-> HealthFetchFailed(r.err)]
    ELSE [err |-> NilErr, nonNil |-> TRUE, val |-> HealthOf(r.val)]

\* AssignFederatedLearningTaskSpecific once GetVMInstance returned r.
AssignFederatedLearningTaskSpecific(r) ==
    IF r.err # NilErr
    THEN [err |-> Wrap("VM status check failed", r.err), nonNil |-> FALSE, val |-> <<>>]
    ELSE [err |-> AssignOutcome(r.val), nonNil |-> FALSE, val |-> <<>>]

\* GetVMInstance returns r: to its caller, or to the method that called it.
ReturnInstance(o, r) ==
    CASE o = "GetVMInstance" -> r
      [] o = "HealthCheckSpecificVM" -> HealthCheckSpecificVM(r)
      [] o = "AssignFederatedLearningTaskSpecific" -> AssignFederatedLearningTaskSpecific(r)

\* Mutant: the loop walks the servers from the last to the first.
NextServer_Reverse(all, built) == Len(all) - Len(built)

\* The server the range loop of GetAllVMInstances handles next.
NextServer(all, built) == Len(built) + 1

\* ------------------------------------------------------------------- state
VARIABLES
    op,           \* the method being executed, "idle" between invocations
    pc,           \* the round trip the invocation is about to make
    participant,  \* argument: *models.Participant
    instanceID,   \* argument: vm.InstanceID / instanceID
    flavorID,     \* argument of GetFlavorDetails
    token,        \* the local (or argument) token
    authResp,     \* answer to the token POST of this invocation
    servers,      \* basicResponse: the parsed servers
    vmInstances,  \* the VMInstance values built so far
    resp,         \* the answer to the list or instance GET
    lookups,      \* the outcomes of the flavor lookups made so far
    requests,     \* the requests s.client.Do has sent in this invocation
    ret           \* what the method returned: value and error

vars == <<op, pc, participant, instanceID, flavorID, token, authResp,
          servers, vmInstances, resp, lookups, requests, ret>>

NoParticipant ==
    [OpenStackEndpoint |-> "", OpenStackApplicationCredentialID |-> "",
     OpenStackApplicationCredentialSecret |-> ""]
NoAuthResp == [transportOK |-> FALSE, status |-> 0, subjectToken |-> ""]
NoRet == [err |-> NilErr, nonNil |-> FALSE, val |-> <<>>]

\* The methods that obtain their own token, and those handed one.
AuthOps == {"GetAuthToken", "GetAllVMInstances", "SyncVMsFromOpenStack",
            "HealthCheckSpecificVM", "AssignFederatedLearningTaskSpecific",
            "GetVMRuntimeStatus"}
TokenOps == {"GetVMInstance", "ListVMInstances", "GetFlavorDetails"}

FirstStep(o) ==
    CASE o \in AuthOps -> "auth"
      [] o = "GetVMInstance" -> "fetch"
      [] o = "ListVMInstances" -> "listonly"
      [] o = "GetFlavorDetails" -> "flavor"

Init ==
    /\ op = "idle" /\ pc = "idle"
    /\ participant = NoParticipant /\ instanceID = "" /\ flavorID = ""
    /\ token = "" /\ authResp = NoAuthResp
    /\ servers = <<>> /\ vmInstances = <<>>
    /\ resp = TransportError /\ lookups = <<>> /\ requests = <<>>
    /\ ret = NoRet

\* A caller invokes a method of the service with its arguments.
Call ==
    /\ pc = "idle"
    /\ \E o \in AuthOps \cup TokenOps, p \in Participants, id \in InstanceIDs,
          tok \in Tokens, fid \in {"f1", "%zz"} :
          /\ op' = o
          /\ pc' = FirstStep(o)
          /\ participant' = p
          /\ instanceID' = IF o \in {"GetVMInstance", "HealthCheckSpecificVM",
                                     "AssignFederatedLearningTaskSpecific",
                                     "GetVMRuntimeStatus"} THEN id ELSE ""
          /\ flavorID' = IF o = "GetFlavorDetails" THEN fid ELSE ""
          /\ token' = IF o \in TokenOps THEN tok ELSE ""
    /\ authResp' = NoAuthResp
    /\ servers' = <<>> /\ vmInstances' = <<>>
    /\ resp' = TransportError /\ lookups' = <<>> /\ requests' = <<>>
    /\ ret' = NoRet

\* ------------------------------------------------- returns after GetAuthToken
\* What each caller of GetAuthToken returns when it failed with err.
ReturnAuthError(o, err) ==
    CASE o = "GetAuthToken" -> [err |-> err, nonNil |-> FALSE, val |-> ""]
      [] o = "GetAllVMInstances" ->
            [err |-> Wrap("auth failed", err), nonNil |-> FALSE, val |-> <<>>]
      [] o = "SyncVMsFromOpenStack" ->
            SyncVMsFromOpenStack([err |-> Wrap("auth failed", err),
                                  nonNil |-> FALSE, val |-> <<>>])
      [] o = "HealthCheckSpecificVM" ->
            [err |-> NilErr, nonNil |-> TRUE, val |-> HealthAuthFailed(err)]
      [] o = "AssignFederatedLearningTaskSpecific" ->
            [err |-> Wrap("auth failed", err), nonNil |-> FALSE, val |-> <<>>]
      [] o = "GetVMRuntimeStatus" ->
            [err |-> Wrap("auth failed", err), nonNil |-> FALSE, val |-> NoRuntimeInfo]

\* Where each caller of GetAuthToken goes on with the token.
AfterAuth(o) ==
    CASE o = "GetAuthToken" -> "done"
      [] o \in {"GetAllVMInstances", "SyncVMsFromOpenStack"} -> "list"
      [] o \in {"HealthCheckSpecificVM", "AssignFederatedLearningTaskSpecific"} -> "fetch"
      [] o = "GetVMRuntimeStatus" -> "status"

\* GetAuthToken, called directly or as the first statement of a method.
Authenticate ==
    /\ pc = "auth"
    /\ \E answer \in AuthResponses :
          LET r == GetAuthToken(participant, answer)
              sent == AuthRequests(participant)
          IN  /\ requests' = requests \o sent
              /\ authResp' = IF sent # <<>> THEN answer ELSE NoAuthResp
              /\ token' = r.token
              /\ IF r.err # NilErr
                 THEN pc' = "done" /\ ret' = ReturnAuthError(op, r.err)
                 ELSE /\ pc' = AfterAuth(op)
                      /\ ret' = IF op = "GetAuthToken"
                                THEN [err |-> NilErr, nonNil |-> TRUE, val |-> r.token]
                                ELSE ret
    /\ UNCHANGED <<op, participant, instanceID, flavorID, servers, vmInstances,
                   resp, lookups>>

\* One flavor lookup as the caller sees it: the outcome of GetFlavorDetails
\* and the answer it was computed from.
Lookup(fl, sent, answer) ==
    [err |-> fl.err, val |-> fl.val, sent |-> sent # <<>>,
     transportOK |-> answer.transportOK, status |-> answer.status,
     body |-> answer.body]

\* --------------------------------------------------------- GetAllVMInstances
\* The list GET and the parse of its answer.
ListServers ==
    /\ pc = "list"
    /\ \E answer \in GetResponses(ListBodies) :
          LET r == FetchServerList(participant, token, answer)
              sent == ListRequests(participant, token)
          IN  /\ requests' = requests \o sent
              /\ resp' = IF sent # <<>> THEN answer ELSE resp
              /\ servers' = r.servers
              /\ IF r.err # NilErr
                 THEN /\ pc' = "done"
                      /\ ret' = ReturnList(op, [err |-> r.err, nonNil |-> FALSE, val |-> <<>>])
                 ELSE IF r.servers = <<>>
                 THEN /\ pc' = "done"
                      /\ ret' = ReturnList(op, [err |-> NilErr, nonNil |-> FALSE, val |-> <<>>])
                 ELSE pc' = "flavors" /\ ret' = ret
    /\ UNCHANGED <<op, participant, instanceID, flavorID, token, authResp,
                   vmInstances, lookups>>

\* One iteration of the loop over basicResponse.Servers; the last one
\* returns.
EnrichServer ==
    /\ pc = "flavors"
    /\ \E answer \in GetResponses(FlavorBodies) :
          LET server == servers[NextServer(servers, vmInstances)]
              fl == GetFlavorDetails(participant, token, server.Flavor.ID, answer)
              sent == FlavorRequests(participant, token, server.Flavor.ID)
              built == Append(vmInstances, EnrichListed(server, fl))
          IN  /\ requests' = requests \o sent
              /\ lookups' = Append(lookups, Lookup(fl, sent, answer))
              /\ vmInstances' = built
              /\ IF Len(built) = Len(servers)
                 THEN /\ pc' = "done"
                      /\ ret' = ReturnList(op, [err |-> NilErr, nonNil |-> TRUE, val |-> built])
                 ELSE pc' = "flavors" /\ ret' = ret
    /\ UNCHANGED <<op, participant, instanceID, flavorID, token, authResp,
                   servers, resp>>

\* ------------------------------------------------------------- GetVMInstance
\* The instance GET and the parse of its answer.
FetchInstance ==
    /\ pc = "fetch"
    /\ \E answer \in GetResponses(InstanceBodies) :
          LET r == FetchServer(instanceID, participant, token, answer)
              sent == InstanceRequests(instanceID, participant, token)
          IN  /\ requests' = requests \o sent
              /\ resp' = IF sent # <<>> THEN answer ELSE resp
              /\ IF r.err # NilErr
                 THEN /\ pc' = "done"
                      /\ servers' = <<>>
                      /\ ret' = ReturnInstance(op, [err |-> r.err, nonNil |-> FALSE, val |-> <<>>])
                 ELSE /\ pc' = "fetchFlavor"
                      /\ servers' = <<r.server>>
                      /\ ret' = ret
    /\ UNCHANGED <<op, participant, instanceID, flavorID, token, authResp,
                   vmInstances, lookups>>

\* The flavor lookup of GetVMInstance and its return.
EnrichInstance ==
    /\ pc = "fetchFlavor"
    /\ \E answer \in GetResponses(FlavorBodies) :
          LET server == servers[1]
              fl == GetFlavorDetails(participant, token, server.Flavor.ID, answer)
              sent == FlavorRequests(participant, token, server.Flavor.ID)
              vmInstance == EnrichFetched(server, fl)
          IN  /\ requests' = requests \o sent
              /\ lookups' = Append(lookups, Lookup(fl, sent, answer))
              /\ vmInstances' = <<vmInstance>>
              /\ ret' = ReturnInstance(op, [err |-> NilErr, nonNil |-> TRUE, val |-> vmInstance])
    /\ pc' = "done"
    /\ UNCHANGED <<op, participant, instanceID, flavorID, token, authResp,
                   servers, resp>>

\* ----------------------------------------------------------- ListVMInstances
ListOnly ==
    /\ pc = "listonly"
    /\ \E answer \in GetResponses(ListBodies) :
          LET sent == ListOnlyRequests(participant, token)
          IN  /\ requests' = requests \o sent
              /\ resp' = IF sent # <<>> THEN answer ELSE resp
              /\ ret' = ListVMInstances(participant, token, answer)
    /\ pc' = "done"
    /\ UNCHANGED <<op, participant, instanceID, flavorID, token, authResp,
                   servers, vmInstances, lookups>>

\* ---------------------------------------------------------- GetFlavorDetails
\* GetFlavorDetails called directly.
FetchFlavor ==
    /\ pc = "flavor"
    /\ \E answer \in GetResponses(FlavorBodies) :
          LET fl == GetFlavorDetails(participant, token, flavorID, answer)
              sent == FlavorRequests(participant, token, flavorID)
          IN  /\ requests' = requests \o sent
              /\ lookups' = Append(lookups, Lookup(fl, sent, answer))
              /\ ret' = fl
    /\ pc' = "done"
    /\ UNCHANGED <<op, participant, instanceID, flavorID, token, authResp,
                   servers, vmInstances, resp>>

\* -------------------------------------------------------- GetVMRuntimeStatus
\* The instance GET of GetVMRuntimeStatus and its return.
FetchStatus ==
    /\ pc = "status"
    /\ \E answer \in GetResponses(InstanceBodies) :
          LET sent == StatusRequests(participant, token, instanceID)
          IN  /\ requests' = requests \o sent
              /\ resp' = IF sent # <<>> THEN answer ELSE resp
              /\ ret' = RuntimeStatus(participant, token, instanceID, answer)
    /\ pc' = "done"
    /\ UNCHANGED <<op, participant, instanceID, flavorID, token, authResp,
                   servers, vmInstances, lookups>>

\* The method has returned; its locals are gone.
Return ==
    /\ pc = "done"
    /\ op' = "idle" /\ pc' = "idle"
    /\ participant' = NoParticipant /\ instanceID' = "" /\ flavorID' = ""
    /\ token' = "" /\ authResp' = NoAuthResp
    /\ servers' = <<>> /\ vmInstances' = <<>>
    /\ resp' = TransportError /\ lookups' = <<>> /\ requests' = <<>>
    /\ ret' = NoRet

Next ==
    \/ Call
    \/ Authenticate
    \/ ListServers
    \/ EnrichServer
    \/ FetchInstance
    \/ EnrichInstance
    \/ ListOnly
    \/ FetchFlavor
    \/ FetchStatus
    \/ Return

Spec == Init /\ [][Next]_vars

\* ============================================================ properties
Range(q) == {q[i] : i \in DOMAIN q}

\* The requests of the log sent to the path of one endpoint.
RECURSIVE Select(_, _, _)
Select(log, method, path) ==
    IF log = <<>> THEN <<>>
    ELSE LET rest == Select(Tail(log), method, path)
         IN  IF Head(log).method = method /\ Head(log).url[2] = path
             THEN <<Head(log)>> \o rest ELSE rest

Posts == Select(requests, "POST", "/identity/v3/auth/tokens")
ListGets == Select(requests, "GET", "/compute/v2.1/servers/detail")
FlavorGets == Select(requests, "GET", "/compute/v2.1/flavors/")
InstanceGets == Select(requests, "GET", "/compute/v2.1/servers/")

EmptyCredential ==
    participant.OpenStackApplicationCredentialID = ""
    \/ participant.OpenStackApplicationCredentialSecret = ""

\* The answer to this invocation's token POST carried a token.
AuthAnswered201 ==
    authResp.transportOK /\ authResp.status = 201 /\ authResp.subjectToken # ""

\* The answer to the list or instance GET was 200 with a body that was
\* read and decoded.
Answered200 == resp.transportOK /\ resp.status = 200 /\ resp.readOK /\ resp.body.valid

ConfigError == "application credential required"

\* C1: with an empty application-credential ID or secret, GetAuthToken
\* returns the configuration error and no HTTP request is sent during the
\* call, also when GetAuthToken is reached through GetAllVMInstances,
\* HealthCheckSpecificVM, AssignFederatedLearningTaskSpecific or
\* GetVMRuntimeStatus (which hand the error on, HealthCheckSpecificVM inside
\* its message).
C1_EmptyCredentialNoRequest ==
    (op \in AuthOps /\ EmptyCredential) =>
        /\ requests = <<>>
        /\ pc \in {"auth", "done"}
        /\ pc = "done" =>
              /\ token = ""
              /\ op = "GetAuthToken" => ret.err = <<ConfigError>> /\ ret.val = ""
              /\ op \in {"GetAllVMInstances", "AssignFederatedLearningTaskSpecific",
                         "GetVMRuntimeStatus"} =>
                    /\ ret.err # NilErr /\ ~ret.nonNil
                    /\ ret.err[Len(ret.err)] = ConfigError
              /\ op = "HealthCheckSpecificVM" =>
                    ConfigError \in Range(ret.val.Message)

C1_Witness ==
    /\ op = "HealthCheckSpecificVM" /\ pc = "done"
    /\ participant.OpenStackApplicationCredentialID # ""
    /\ participant.OpenStackApplicationCredentialSecret = ""
    /\ participant.OpenStackEndpoint = "http://openstack"

\* C2 as stated: with non-empty credentials GetAuthToken issues exactly one
\* POST to the identity endpoint, and returns a token iff the answer is 201
\* with a non-empty X-Subject-Token.
C2_ExactlyOnePost ==
    (op = "GetAuthToken" /\ pc = "done" /\ ~EmptyCredential) =>
        /\ Len(requests) = 1
        /\ Len(Posts) = 1
        /\ ret.err = NilErr <=> AuthAnswered201

\* C2 amended: with non-empty credentials GetAuthToken issues at most one
\* request, a POST to the identity endpoint: exactly one when the URL built
\* from the endpoint parses, none when it does not. It returns a token iff
\* a POST was answered with 201 and a non-empty X-Subject-Token; the token
\* then equals the header value, and in every other case it returns an error
\* and the empty token.
C2_TokenIffCreatedWithHeader ==
    (op = "GetAuthToken" /\ pc = "done" /\ ~EmptyCredential) =>
        /\ requests = Posts
        /\ Len(requests) =
              (IF participant.OpenStackEndpoint \in UnparsableParts THEN 0 ELSE 1)
        /\ requests = <<>> => authResp = NoAuthResp
        /\ ret.err = NilErr <=> AuthAnswered201
        /\ ret.err = NilErr => ret.val = authResp.subjectToken /\ token = ret.val
        /\ ret.err # NilErr => ret.val = "" /\ token = ""

C2_Witness ==
    /\ op = "GetAuthToken" /\ pc = "done" /\ ~EmptyCredential
    /\ Len(requests) = 1 /\ ret.err = NilErr /\ ret.val = "tokB"

\* The source object of the i-th lookup's answer, decoded.
FetchedFlavor(l) == ParseFlavor(Field(l.body.doc, "flavor", NoDoc))

\* The flavor of descriptor d, built for a server with flavor id fid from
\* lookup l: the placeholder when the lookup failed, the fetched flavor
\* when it succeeded.
FlavorPolicy(d, fid, l) ==
    /\ l.err # NilErr =>
          d.Flavor = [ID |-> fid, Name |-> "Unknown", VCPUs |-> 0, RAM |-> 0, Disk |-> 0]
    /\ l.err = NilErr => d.Flavor = FetchedFlavor(l)
    /\ (~l.sent \/ l.status # 200 \/ ~l.body.valid) => l.err # NilErr

SourceServers == Field(resp.body.doc, "servers", <<>>)
SourceServer == Field(resp.body.doc, "server", NoDoc)
FlavorIDOf(doc) == Field(Field(doc, "flavor", NoDoc), "id", "")

\* C3: once authentication succeeded and the instance request was answered
\* 200 with a parseable body, no flavor lookup failure fails the call:
\* GetAllVMInstances returns one descriptor per server of the answer and
\* GetVMInstance returns a descriptor; a descriptor whose lookup failed
\* carries the placeholder flavor (the server's flavor id, "Unknown", 0/0/0),
\* one whose lookup succeeded carries the fetched flavor.
C3_FlavorFailureDegrades ==
    /\ (op = "GetAllVMInstances" /\ pc = "done" /\ Answered200) =>
          /\ ret.err = NilErr
          /\ Len(ret.val) = Len(SourceServers)
          /\ Len(lookups) = Len(SourceServers)
          /\ \A i \in DOMAIN ret.val :
                FlavorPolicy(ret.val[i], FlavorIDOf(SourceServers[i]), lookups[i])
    /\ (op = "GetVMInstance" /\ pc = "done" /\ Answered200) =>
          /\ ret.err = NilErr /\ ret.nonNil
          /\ Len(lookups) = 1
          /\ FlavorPolicy(ret.val, FlavorIDOf(SourceServer), lookups[1])

C3_Witness ==
    /\ op = "GetAllVMInstances" /\ pc = "done" /\ Answered200
    /\ Len(ret.val) = 2
    /\ lookups[1].err = NilErr
    /\ lookups[2].sent /\ lookups[2].status = 404

\* The instance fetch of HealthCheckSpecificVM did not produce an instance.
FetchFailed == InstanceGets = <<>> \/ ~Answered200

\* C4: HealthCheckSpecificVM never hands an error to its caller: whatever
\* the credential, the instance id and the answers, it returns a nil error
\* and a result, and when the authentication or the instance fetch failed
\* the result is unhealthy with status "ERROR" and a non-empty message.
C4_HealthCheckSwallowsErrors ==
    (op = "HealthCheckSpecificVM" /\ pc = "done") =>
        /\ ret.err = NilErr /\ ret.nonNil
        /\ (~AuthAnswered201 \/ FetchFailed) =>
              /\ ~ret.val.Healthy
              /\ ret.val.Status = "ERROR"
              /\ \E part \in Range(ret.val.Message) : part # ""

C4_Witness ==
    /\ op = "HealthCheckSpecificVM" /\ pc = "done"
    /\ AuthAnswered201 /\ Len(InstanceGets) = 1
    /\ resp.transportOK /\ resp.status = 404

\* C5: the health result is healthy iff authentication succeeded, the
\* fetch succeeded and the fetched status is exactly "ACTIVE"; after a
\* successful fetch the result's status is the fetched status, and when that
\* is not "ACTIVE" the result is unhealthy and its message holds the status.
C5_HealthyIffActive ==
    (op = "HealthCheckSpecificVM" /\ pc = "done") =>
        LET fetched == AuthAnswered201 /\ ~FetchFailed
            status == Field(SourceServer, "status", "")
        IN  /\ ret.val.Healthy <=> (fetched /\ status = "ACTIVE")
            /\ fetched =>
                  /\ ret.val.Status = status
                  /\ status # "ACTIVE" =>
                        /\ ~ret.val.Healthy
                        /\ ret.val.Message[Len(ret.val.Message)] = status

C5_Witness ==
    /\ op = "HealthCheckSpecificVM" /\ pc = "done"
    /\ AuthAnswered201 /\ ~FetchFailed
    /\ Field(SourceServer, "status", "") = "STOPPED"
    /\ ~ret.val.Healthy

\* --------------------------------------------------------------- round trip
\* The address map equals the addresses object it was decoded from.
SameAddresses(addrs, doc) ==
    /\ DOMAIN addrs = DOMAIN doc
    /\ \A n \in DOMAIN doc :
          /\ DOMAIN addrs[n] = DOMAIN doc[n]
          /\ \A i \in DOMAIN doc[n] :
                /\ addrs[n][i].Addr = Field(doc[n][i], "addr", "")
                /\ addrs[n][i].Type = Field(doc[n][i], "OS-EXT-IPS:type", "")

\* Descriptor d equals, field for field, the server object src and the
\* flavor object flv (an absent JSON key is the field's zero value).
DescriptorMatches(d, src, flv) ==
    /\ d.ID = Field(src, "id", "")
    /\ d.Name = Field(src, "name", "")
    /\ d.Status = Field(src, "status", "")
    /\ d.Flavor.ID = Field(flv, "id", "")
    /\ d.Flavor.Name = Field(flv, "name", "")
    /\ d.Flavor.VCPUs = Field(flv, "vcpus", 0)
    /\ d.Flavor.RAM = Field(flv, "ram", 0)
    /\ d.Flavor.Disk = Field(flv, "disk", 0)
    /\ SameAddresses(d.Addresses, Field(src, "addresses", NoDoc))
    /\ d.PowerState = Field(src, "OS-EXT-STS:power_state", 0)
    /\ d.AvailabilityZone = Field(src, "OS-EXT-AZ:availability_zone", "")
    /\ d.Created = Field(src, "created", "")
    /\ d.Updated = Field(src, "updated", "")

\* The record SyncVMsFromOpenStack builds carries the same id, name, status,
\* flavor fields and availability zone.
RecordMatches(rec, src, flv) ==
    /\ rec.InstanceID = Field(src, "id", "")
    /\ rec.Name = Field(src, "name", "")
    /\ rec.Status = Field(src, "status", "")
    /\ rec.FlavorID = Field(flv, "id", "")
    /\ rec.FlavorName = Field(flv, "name", "")
    /\ rec.VCPUs = Field(flv, "vcpus", 0)
    /\ rec.RAM = Field(flv, "ram", 0)
    /\ rec.Disk = Field(flv, "disk", 0)
    /\ rec.AvailabilityZone = Field(src, "OS-EXT-AZ:availability_zone", "")

\* The i-th lookup was answered 200 with a flavor object.
FlavorServed(l) == l.err = NilErr /\ "flavor" \in DOMAIN l.body.doc

\* C6: round trip. For an instance JSON and a flavor JSON served with
\* status 200, every field of the descriptor GetAllVMInstances and
\* GetVMInstance return equals the field of the source JSON, and the record
\* SyncVMsFromOpenStack builds carries the same id, name, status, flavor
\* fields and availability zone.
C6_RoundTrip ==
    /\ (op = "GetAllVMInstances" /\ pc = "done" /\ Answered200) =>
          \A i \in DOMAIN ret.val :
              FlavorServed(lookups[i]) =>
                  DescriptorMatches(ret.val[i], SourceServers[i], lookups[i].body.doc.flavor)
    /\ (op = "GetVMInstance" /\ pc = "done" /\ Answered200 /\ FlavorServed(lookups[1])) =>
          DescriptorMatches(ret.val, SourceServer, lookups[1].body.doc.flavor)
    /\ (op = "SyncVMsFromOpenStack" /\ pc = "done" /\ Answered200) =>
          \A i \in DOMAIN ret.val :
              FlavorServed(lookups[i]) =>
                  RecordMatches(ret.val[i], SourceServers[i], lookups[i].body.doc.flavor)

\* C7: every resource call requires 200. When the GET of GetAllVMInstances,
\* ListVMInstances, GetVMInstance, GetVMRuntimeStatus or GetFlavorDetails is
\* answered with another status, the method returns an error and no value,
\* whatever the body holds.
C7_Non200IsError ==
    /\ (/\ op \in {"GetAllVMInstances", "ListVMInstances", "GetVMInstance",
                   "GetVMRuntimeStatus"}
        /\ pc = "done" /\ resp.transportOK /\ resp.status # 200) =>
          ret.err # NilErr /\ ~ret.nonNil
    /\ (/\ op = "GetFlavorDetails" /\ pc = "done"
        /\ lookups[1].sent /\ lookups[1].transportOK /\ lookups[1].status # 200) =>
          ret.err # NilErr /\ ~ret.nonNil

\* ----------------------------------------------------------------- ordering
\* The flavor GETs of the lookups for the first k servers of the answer, in
\* the order of the answer; a lookup whose URL cannot be built sends none.
RECURSIVE LookupGets(_)
LookupGets(k) ==
    IF k = 0 THEN <<>>
    ELSE LET url == <<participant.OpenStackEndpoint, "/compute/v2.1/flavors/",
                      FlavorIDOf(SourceServers[k])>>
         IN  LookupGets(k - 1)
             \o (IF NewRequestOK(url) THEN <<Request("GET", url, token)>> ELSE <<>>)

C9_AuthThenQuery ==
    (op \in {"GetAllVMInstances", "HealthCheckSpecificVM",
             "AssignFederatedLearningTaskSpecific", "GetVMRuntimeStatus"}) =>
        /\ pc = "auth" => token = "" /\ requests = <<>> /\ authResp = NoAuthResp
        /\ \A i \in DOMAIN requests :
              \/ i = 1 /\ requests[i].method = "POST"
              \/ /\ i > 1 /\ requests[i].method = "GET"
                 /\ requests[1].method = "POST"
                 /\ AuthAnswered201
                 /\ requests[i].token = authResp.subjectToken
        /\ (pc \notin {"auth", "done"}) => AuthAnswered201 /\ token = authResp.subjectToken

C9_Witness ==
    /\ op = "HealthCheckSpecificVM" /\ pc = "done"
    /\ Len(requests) = 3
    /\ authResp.subjectToken = "tokB"
    /\ requests[2].token = "tokB" /\ requests[3].token = "tokB"

\* The servers of the list answer whose flavor URL can be built.
Buildable ==
    {i \in DOMAIN SourceServers :
        NewRequestOK(<<participant.OpenStackEndpoint, "/compute/v2.1/flavors/",
                       FlavorIDOf(SourceServers[i])>>)}

\* C10 as stated: a GetAllVMInstances invocation that succeeds over an
\* answer of n servers has sent exactly 2 + n requests.
C10_ExactlyTwoPlusN ==
    (op = "GetAllVMInstances" /\ pc = "done" /\ ret.err = NilErr) =>
        Len(requests) = 2 + Len(SourceServers)

\* C10 amended: no retries. A GetAllVMInstances invocation over an answer of
\* n servers sends at most one token POST, at most one list GET and at most
\* n flavor GETs; when it succeeds it has sent one POST, one list GET and
\* one flavor GET for each server whose flavor URL can be built (2 + n when
\* all can); once the token POST or the list GET has failed nothing more is
\* sent. No other method sends a request twice either.
C10_NoRetries ==
    /\ Len(Posts) <= 1 /\ Len(ListGets) <= 1 /\ Len(InstanceGets) <= 1
    /\ op \notin {"GetAllVMInstances", "SyncVMsFromOpenStack"} => Len(FlavorGets) <= 1
    /\ op = "GetAllVMInstances" =>
          /\ Len(requests) = Len(Posts) + Len(ListGets) + Len(FlavorGets)
          /\ Len(FlavorGets) <= Len(servers)
          /\ (pc # "auth" /\ ~AuthAnswered201) => pc = "done" /\ requests = Posts
          /\ (pc \notin {"auth", "list"} /\ ~Answered200) =>
                pc = "done" /\ FlavorGets = <<>>
          /\ (pc = "done" /\ ret.err = NilErr) =>
                /\ Len(Posts) = 1 /\ Len(ListGets) = 1
                /\ Len(FlavorGets) = Cardinality(Buildable)
                /\ Len(requests) = 2 + Cardinality(Buildable)
                /\ Len(requests) <= 2 + Len(SourceServers)

C10_Witness ==
    /\ op = "GetAllVMInstances" /\ pc = "done" /\ ret.err = NilErr
    /\ Len(SourceServers) = 2
    /\ Len(requests) = 4
    /\ lookups[1].status = 404

\* ------------------------------------------------------------ list endpoint
\* The GETs of the log that are neither instance nor flavor GETs: the list
\* GETs of the invocation, whatever path they went to.
ListingGets ==
    SelectSeq(requests,
              LAMBDA r : r.method = "GET"
                         /\ r.url[2] \notin {"/compute/v2.1/servers/", "/compute/v2.1/flavors/"})

\* C11: every method that lists instances (GetAllVMInstances and
\* ListVMInstances) sends its GET to {endpoint}/compute/v2.1/servers/detail
\* with X-Auth-Token set to its token, and on a 200 answer returns one
\* descriptor per element of servers[], each enriched by a flavor lookup on
\* {endpoint}/compute/v2.1/flavors/{id}.
C11_ListersUseComputeDetailEndpoint ==
    (op \in {"GetAllVMInstances", "ListVMInstances"} /\ pc = "done") =>
        /\ \A i \in DOMAIN ListingGets :
              /\ ListingGets[i].url =
                    <<participant.OpenStackEndpoint, "/compute/v2.1/servers/detail">>
              /\ ListingGets[i].token = token /\ token # ""
        /\ Answered200 =>
              /\ ret.err = NilErr
              /\ Len(ret.val) = Len(SourceServers)
              /\ Len(lookups) = Len(SourceServers)
              /\ \A i \in DOMAIN SourceServers :
                    /\ ret.val[i].ID = Field(SourceServers[i], "id", "")
                    /\ lookups[i].sent =>
                          \E j \in DOMAIN requests :
                              requests[j] =
                                  Request("GET",
                                          <<participant.OpenStackEndpoint,
                                            "/compute/v2.1/flavors/",
                                            FlavorIDOf(SourceServers[i])>>,
                                          token)

====
